---- MODULE Spec2Model ----
(***************************************************************************)
(* Model of the WebAuthn relying-party server of weiilug/webauthndemo:      *)
(*   src/src/libs/credential.ts  - the Firestore credential repository      *)
(*   src/src/libs/webauthn.ts    - getOrigin and the ceremony handlers      *)
(*                                                                         *)
(* Every request handler is an async function.  A handler runs without      *)
(* interruption between two awaits, so each action below is one such        *)
(* synchronous stretch: from the start of the handler, or from the          *)
(* completion of the awaited operation, up to the next await or the end.    *)
(* A Firestore read or write takes effect atomically in the step in which   *)
(* the awaited promise settles; every such step has a failing twin in       *)
(* which the promise rejects.                                               *)
(***************************************************************************)
EXTENDS Integers, Sequences, FiniteSets, TLC

\* ------------------------------------------------------------------ bounds

\* largest signature counter a verifier reports
MaxCounter == 1
\* number of challenges the option generators hand out in one run
MaxChallenge == 2
\* number of requests served in one run
MaxCalls == 3

\* the users, credential ids and device public keys of a run
Users == {"u1", "u2"}
CredIds == {"c1", "c2"}
DpkIds == {"d1", "d2"}
\* request slots: at most this many handlers are in flight at once
Procs == {"p1", "p2"}

\* the order in which free request slots are taken
SlotBefore(q, p) == q = "p1" /\ p = "p2"

\* res.locals.user when no principal is authenticated
NoUser == "nouser"
\* authenticatorAttachment values a client may post: "" is an absent value,
\* "hybrid" one that is neither 'platform' nor 'cross-platform'
AttachmentInputs == {"", "platform", "hybrid"}
\* devicePublicKey extension output of the verifier: no extension, an
\* extension without its dpk payload, or an extension carrying a key
NoExt == "noext"
NoDpk == "nodpk"
ExtOutputs == {NoExt, NoDpk} \cup DpkIds

\* What a verifier call can answer.  A verification that fails or throws
\* carries no registrationInfo or authenticationInfo the handlers read.
RegistrationAnswers ==
  [verdict : {"verified"}, credentialID : CredIds, counter : 0..MaxCounter, ext : ExtOutputs]
    \cup [verdict : {"unverified", "throws"}, credentialID : {""}, counter : {0}, ext : {NoExt}]
AuthenticationAnswers ==
  [verdict : {"verified"}, newCounter : 0..MaxCounter, ext : ExtOutputs]
    \cup [verdict : {"unverified", "throws"}, newCounter : {0}, ext : {NoExt}]

\* webauthn.ts:49
WEBAUTHN_TIMEOUT == 300000

\* ------------------------------------------------------------------- state

VARIABLES
  creds,          \* Firestore collection 'credentials': doc id -> StoredCredential
  dpks,           \* Firestore collection 'dpks': doc id -> StoredDevicePublicKey
  session,        \* req.session: the fields currently set on the session
  procs,          \* the handler invocation held by each request slot
  pendingDel,     \* un-awaited dpk deletes of removeCredential still in flight
  nextChallenge,  \* the next challenge the option generators return
  okCount,        \* history: successful responses verified against each challenge
  consumed,       \* history: registerResponse calls ended since a challenge was last issued
  calls,          \* the number of requests served so far
  last,           \* history: the request that ended last
  env,            \* getOrigin: process.env.ANDROID_PACKAGENAME / ANDROID_SHA256HASH
  call,           \* getOrigin: the arguments and the result of the last call
  put             \* storeDevicePublicKey: the last direct call and the dpks before it

mainVars == <<creds, dpks, session, procs, pendingDel, nextChallenge, okCount, consumed, calls, last>>
originVars == <<env, call, put>>
vars == <<creds, dpks, session, procs, pendingDel, nextChallenge, okCount, consumed, calls, last, env, call,
          put>>

\* helper.getNow(): the clock, which has ticked once for every challenge issued
getNow == nextChallenge

\* ------------------------------------------------- credential repository

\* a function with one more (or one replaced) entry: ref.set(data)
DocSet(coll, id, data) ==
  [k \in (DOMAIN coll) \cup {id} |-> IF k = id THEN data ELSE coll[k]]

\* a function without an entry: ref.delete() (deleting a missing doc succeeds)
DocDelete(coll, id) ==
  [k \in (DOMAIN coll) \ {id} |-> coll[k]]

\* credential.ts:86-98
getDevicePublicKeys(credential_id) ==
  {d \in DOMAIN dpks : dpks[d].credentialID = credential_id}

\* a query that lacks the where clause
CredsOfAnyUser(user_id) ==
  DOMAIN creds

\* the documents matched by where('user_id', '==', user_id)
CredsOf(user_id) ==
  {c \in DOMAIN creds : creds[c].user_id = user_id}

\* orderBy('registered', 'desc') over a set of credential ids
RECURSIVE OrderByRegisteredDesc(_)
OrderByRegisteredDesc(S) ==
  IF S = {} THEN <<>>
  ELSE LET first == CHOOSE x \in S : \A y \in S : creds[y].registered <= creds[x].registered
       IN  <<first>> \o OrderByRegisteredDesc(S \ {first})

\* credential.ts:44-56: the user's credentials, newest first, each joined
\* with its device public keys
getCredentials(user_id) ==
  LET ids == OrderByRegisteredDesc(CredsOf(user_id))
  IN  [i \in 1..Len(ids) |->
         [credentialID |-> ids[i],
          user_id |-> creds[ids[i]].user_id,
          counter |-> creds[ids[i]].counter,
          registered |-> creds[ids[i]].registered,
          authenticatorAttachment |-> creds[ids[i]].authenticatorAttachment,
          dpks |-> getDevicePublicKeys(ids[i])]]

\* the credential ids list_credentials(user_id) shows
ListedIds(user_id) ==
  {getCredentials(user_id)[i].credentialID : i \in 1..Len(getCredentials(user_id))}

\* credential.ts:65-70: upsert keyed by credentialID
storeCredential(coll, credential) ==
  DocSet(coll, credential.credentialID,
         [k \in (DOMAIN credential) \ {"credentialID"} |-> credential[k]])

\* document ids Firestore generates for collection.add(data)
AutoIds == {"a1", "a2", "a3", "a4"}

\* a write through add(), which appends a document under a generated id
storeDevicePublicKeyAdded(coll, devicePublicKey) ==
  LET free == AutoIds \ DOMAIN coll
  IN  DocSet(coll, IF free = {} THEN devicePublicKey.dpk ELSE CHOOSE a \in free : TRUE,
             devicePublicKey)

\* credential.ts:107-112: upsert keyed by the dpk itself
storeDevicePublicKey(coll, devicePublicKey) ==
  DocSet(coll, devicePublicKey.dpk, devicePublicKey)

\* credential.ts:100-105
removeDevicePublicKey(coll, dpk) ==
  DocDelete(coll, dpk)

\* ----------------------------------------------------------------- session

\* delete req.session.<field> for each of the fields
SessionDelete(s, fields) ==
  [k \in (DOMAIN s) \ fields |-> s[k]]

\* req.session.<field> = value for each field of the record `values`
SessionAssign(s, values) ==
  [k \in (DOMAIN s) \cup (DOMAIN values) |-> IF k \in DOMAIN values THEN values[k] ELSE s[k]]

\* a cleanup that forgets the challenge
ClearRegistrationSessionKeepsChallenge(s) ==
  SessionDelete(s, {"timeout", "type"})

\* webauthn.ts:293-295 and 302-304
ClearRegistrationSession(s) ==
  SessionDelete(s, {"challenge", "timeout", "type"})

\* a cleanup that forgets the challenge
ClearAuthenticationSessionKeepsChallenge(s) ==
  SessionDelete(s, {"timeout"})

\* webauthn.ts:434-435 and 440-441
ClearAuthenticationSession(s) ==
  SessionDelete(s, {"challenge", "timeout"})

\* !req.session.challenge
HasChallenge(s) == "challenge" \in DOMAIN s

\* ------------------------------------------------------- request handlers

\* the strings the handlers throw
Unauthorized == "Unauthorized."
NoChallengeFound == "No challenge found."
HostnameNotConfigured == "Hostname not configured."
OriginNotConfigured == "Origin not configured."
VerificationFailed == "User verification failed."
DpkMissing == "DPK data is missing!"
CredentialNotFound == "Authenticating credential not found."
\* the TypeError getOrigin throws when the hash list is shorter than the package list
OriginTypeError == "TypeError"
\* a rejected Firestore promise, and an exception of the verifier
StorageError == "storage error"
VerifierThrew == "verifier exception"
\* the handler reached its res.json(...) of the success path
Ok == "ok"

\* a credential-shaped value for slots that hold none
NoCred == [user_id |-> NoUser, credentialID |-> "", counter |-> 0, registered |-> 0,
           authenticatorAttachment |-> "undefined"]

\* a free request slot
Idle ==
  [op |-> "idle", pc |-> "idle", user |-> NoUser, credID |-> "", cred |-> NoCred,
   ext |-> NoExt, expectedChallenge |-> 0, invoked |-> FALSE,
   fresh |-> FALSE, snap |-> {}, bgFailed |-> FALSE]

\* what is known of the request that ended last: the handler, its caller,
\* the credential id it named, whether it called the verifier, how it ended,
\* the credential a successful handler built (registerResponse) or updated in
\* memory and sent back (authResponse), the devicePublicKey output it
\* handled, and whether the id was new to the caller when registerResponse
\* stored it
Ended(pr, result) ==
  [op |-> pr.op, user |-> pr.user, credID |-> pr.credID, invoked |-> pr.invoked,
   result |-> result, body |-> IF result = Ok THEN pr.cred ELSE NoCred,
   ext |-> IF result = Ok THEN pr.ext ELSE NoExt, fresh |-> pr.fresh]

\* the handler in slot p ends with `result`: its locals are gone
End(p, pr, result) ==
  /\ procs' = [procs EXCEPT ![p] = Idle]
  /\ last' = Ended(pr, result)

\* the handler in slot p goes on, with the locals pr, to its next await
Continue(p, pr) ==
  /\ procs' = [procs EXCEPT ![p] = pr]
  /\ UNCHANGED last

\* a slot a new request may take: no handler runs in it, none of the deletes
\* its last handler issued is still in flight, and no slot before it is free
SlotFree(p) ==
  /\ procs[p].pc = "idle"
  /\ \A d \in DpkIds : <<d, p>> \notin pendingDel

\* requests take the first free slot; a run serves at most MaxCalls requests
CanStart(p) ==
  /\ SlotFree(p)
  /\ \A q \in Procs : SlotFree(q) => ~SlotBefore(q, p)
  /\ calls < MaxCalls

\* no handler is between its start and its end
Quiet == \A q \in Procs : procs[q].pc = "idle"

\* one more registerResponse ended on the challenge last issued (history, capped at 2)
CountConsumed == IF consumed < 2 THEN consumed + 1 ELSE consumed

\* one more success recorded against a challenge (history, capped at 2)
CountOk(ch) ==
  [okCount EXCEPT ![ch] = IF @ < 2 THEN @ + 1 ELSE @]

\* webauthn.ts:174
EnrollmentType(aa) == IF aa = "" THEN "undefined" ELSE aa

\* webauthn.ts:132-225
RegisterRequest(p, user, hostname, aa) ==
  /\ CanStart(p)
  /\ calls' = calls + 1
  /\ LET pr == [Idle EXCEPT !.op = "registerRequest", !.user = user]
     IN  IF user = NoUser
         THEN /\ End(p, pr, Unauthorized)
              /\ UNCHANGED <<session, nextChallenge, consumed>>
         ELSE IF ~hostname
         THEN /\ End(p, pr, HostnameNotConfigured)
              /\ UNCHANGED <<session, nextChallenge, consumed>>
         ELSE /\ nextChallenge <= MaxChallenge
              /\ session' = SessionAssign(session,
                              [challenge |-> nextChallenge,
                               timeout |-> getNow + WEBAUTHN_TIMEOUT,
                               type |-> EnrollmentType(aa)])
              /\ nextChallenge' = nextChallenge + 1
              /\ consumed' = 0
              /\ End(p, pr, Ok)
  /\ UNCHANGED <<creds, dpks, pendingDel, okCount, env, call, put>>

\* webauthn.ts:310-361; the throw of line 314 is outside the try
AuthRequest(p, user) ==
  /\ CanStart(p)
  /\ calls' = calls + 1
  /\ LET pr == [Idle EXCEPT !.op = "authRequest", !.user = user]
     IN  IF user = NoUser
         THEN /\ End(p, pr, Unauthorized)
              /\ UNCHANGED <<session, nextChallenge, consumed>>
         ELSE /\ nextChallenge <= MaxChallenge
              /\ session' = SessionAssign(session,
                              [challenge |-> nextChallenge,
                               timeout |-> getNow + WEBAUTHN_TIMEOUT])
              /\ nextChallenge' = nextChallenge + 1
              /\ consumed' = 0
              /\ End(p, pr, Ok)
  /\ UNCHANGED <<creds, dpks, pendingDel, okCount, env, call, put>>

\* a catch block that answers without the three deletes
RegisterResponseCatchLeavesSession(p, pr, error) ==
  /\ End(p, pr, error)
  /\ consumed' = CountConsumed
  /\ UNCHANGED <<session, okCount>>

\* webauthn.ts:299-307: the catch block of registerResponse
RegisterResponseCatch(p, pr, error) ==
  /\ session' = ClearRegistrationSession(session)
  /\ End(p, pr, error)
  /\ consumed' = CountConsumed
  /\ UNCHANGED okCount

\* webauthn.ts:293-298: the end of the success path of registerResponse
RegisterResponseSuccess(p, pr) ==
  /\ session' = ClearRegistrationSession(session)
  /\ End(p, pr, Ok)
  /\ consumed' = CountConsumed
  /\ okCount' = CountOk(pr.expectedChallenge)

\* webauthn.ts:231-250: the checks, up to the await of the verifier
RegisterResponseStart(p, user, hostname, origin, resolves) ==
  /\ CanStart(p)
  /\ calls' = calls + 1
  /\ LET pr == [Idle EXCEPT !.op = "registerResponse", !.user = user]
     IN  IF user = NoUser THEN RegisterResponseCatch(p, pr, Unauthorized)
         ELSE IF ~HasChallenge(session) THEN RegisterResponseCatch(p, pr, NoChallengeFound)
         ELSE IF ~hostname THEN RegisterResponseCatch(p, pr, HostnameNotConfigured)
         ELSE IF ~origin THEN RegisterResponseCatch(p, pr, OriginNotConfigured)
         ELSE IF ~resolves THEN RegisterResponseCatch(p, pr, OriginTypeError)
         ELSE /\ Continue(p, [pr EXCEPT !.pc = "verify", !.invoked = TRUE,
                                        !.expectedChallenge = session.challenge])
              /\ UNCHANGED <<session, consumed, okCount>>
  /\ UNCHANGED <<creds, dpks, pendingDel, nextChallenge, env, call, put>>

\* webauthn.ts:252-276: the verifier has answered; on success the
\* credential is built and storeCredential is called
RegisterResponseVerified(p, verification) ==
  /\ procs[p].op = "registerResponse"
  /\ procs[p].pc = "verify"
  /\ LET pr == procs[p]
     IN  IF verification.verdict = "throws" THEN RegisterResponseCatch(p, pr, VerifierThrew)
         ELSE IF verification.verdict = "unverified"
         THEN RegisterResponseCatch(p, pr, VerificationFailed)
         ELSE /\ Continue(p,
                 [pr EXCEPT !.pc = "storeCredential",
                            !.credID = verification.credentialID,
                            !.ext = verification.ext,
                            !.cred = [user_id |-> pr.user,
                                      credentialID |-> verification.credentialID,
                                      counter |-> verification.counter,
                                      registered |-> getNow,
                                      authenticatorAttachment |->
                                        IF "type" \in DOMAIN session
                                        THEN session.type ELSE "undefined"]])
              /\ UNCHANGED <<session, consumed, okCount>>
  /\ UNCHANGED <<creds, dpks, pendingDel, nextChallenge, calls, env, call, put>>

\* webauthn.ts:263-298: storeCredential has settled; then the extension
RegisterResponseStored(p, stored) ==
  /\ procs[p].op = "registerResponse"
  /\ procs[p].pc = "storeCredential"
  /\ LET pr == procs[p]
         written == [pr EXCEPT !.fresh = ~(pr.credID \in DOMAIN creds
                                           /\ creds[pr.credID].user_id = pr.user)]
     IN  IF ~stored
         THEN /\ RegisterResponseCatch(p, pr, StorageError)
              /\ UNCHANGED creds
         ELSE /\ creds' = storeCredential(creds, pr.cred)
              /\ IF pr.ext = NoExt THEN RegisterResponseSuccess(p, written)
                 ELSE IF pr.ext = NoDpk THEN RegisterResponseCatch(p, written, DpkMissing)
                 ELSE /\ Continue(p, [written EXCEPT !.pc = "storeDevicePublicKey"])
                      /\ UNCHANGED <<session, consumed, okCount>>
  /\ UNCHANGED <<dpks, pendingDel, nextChallenge, calls, env, call, put>>

\* webauthn.ts:287-298: storeDevicePublicKey has settled
RegisterResponseDpkStored(p, stored) ==
  /\ procs[p].op = "registerResponse"
  /\ procs[p].pc = "storeDevicePublicKey"
  /\ LET pr == procs[p]
     IN  IF ~stored
         THEN /\ RegisterResponseCatch(p, pr, StorageError)
              /\ UNCHANGED dpks
         ELSE /\ dpks' = storeDevicePublicKey(dpks, [credentialID |-> pr.credID, dpk |-> pr.ext])
              /\ RegisterResponseSuccess(p, pr)
  /\ UNCHANGED <<creds, pendingDel, nextChallenge, calls, env, call, put>>

\* webauthn.ts:381: credentials.find(...), as the index of the first match (0: none)
FindCredential(credentials, id) ==
  LET hits == {i \in 1..Len(credentials) : credentials[i].credentialID = id}
  IN  IF hits = {} THEN 0 ELSE CHOOSE i \in hits : \A j \in hits : i <= j

\* webauthn.ts:367-370: a throw before the try block; nothing catches it
AuthResponseThrow(p, pr, error) ==
  /\ End(p, pr, error)
  /\ UNCHANGED <<session, okCount>>

\* webauthn.ts:437-443: the catch block of authResponse
AuthResponseCatch(p, pr, error) ==
  /\ session' = ClearAuthenticationSession(session)
  /\ End(p, pr, error)
  /\ UNCHANGED okCount

\* webauthn.ts:434-436: the end of the success path; storedCred is the response
AuthResponseSuccess(p, pr) ==
  /\ session' = ClearAuthenticationSession(session)
  /\ End(p, pr, Ok)
  /\ okCount' = CountOk(pr.expectedChallenge)

\* webauthn.ts:367-380: the checks, up to the await of getCredentials
AuthResponseStart(p, user, hostname, origin, resolves, claimedId) ==
  /\ CanStart(p)
  /\ calls' = calls + 1
  /\ LET pr == [Idle EXCEPT !.op = "authResponse", !.user = user, !.credID = claimedId]
     IN  IF user = NoUser THEN AuthResponseThrow(p, pr, Unauthorized)
         ELSE IF ~hostname THEN AuthResponseThrow(p, pr, HostnameNotConfigured)
         ELSE IF ~origin THEN AuthResponseThrow(p, pr, OriginNotConfigured)
         ELSE IF ~resolves THEN AuthResponseThrow(p, pr, OriginTypeError)
         ELSE /\ Continue(p, [pr EXCEPT !.pc = "getCredentials",
                                        !.expectedChallenge =
                                           IF HasChallenge(session) THEN session.challenge ELSE 0])
              /\ UNCHANGED <<session, okCount>>
  /\ UNCHANGED <<creds, dpks, pendingDel, nextChallenge, consumed, env, call, put>>

\* webauthn.ts:380-436: getCredentials has settled; the lookup, the
\* (synchronous) verifier and the update of the local storedCred
AuthResponseLookedUp(p, listed, verification) ==
  /\ procs[p].op = "authResponse"
  /\ procs[p].pc = "getCredentials"
  /\ LET pr == procs[p]
         credentials == getCredentials(pr.user)
         found == FindCredential(credentials, pr.credID)
         called == [pr EXCEPT !.invoked = TRUE]
     IN  IF ~listed THEN AuthResponseCatch(p, pr, StorageError)
         ELSE IF found = 0 THEN AuthResponseCatch(p, pr, CredentialNotFound)
         ELSE IF verification.verdict = "throws" THEN AuthResponseCatch(p, called, VerifierThrew)
         ELSE IF verification.verdict = "unverified"
         THEN AuthResponseCatch(p, called, VerificationFailed)
         ELSE LET storedCred ==
                    [credentialID |-> credentials[found].credentialID,
                     user_id |-> credentials[found].user_id,
                     counter |-> verification.newCounter,
                     registered |-> credentials[found].registered,
                     authenticatorAttachment |-> credentials[found].authenticatorAttachment,
                     dpks |-> credentials[found].dpks,
                     last_used |-> getNow]
                  updated == [called EXCEPT !.cred = storedCred, !.ext = verification.ext]
              IN  IF verification.ext = NoExt THEN AuthResponseSuccess(p, updated)
                  ELSE IF verification.ext = NoDpk THEN AuthResponseCatch(p, updated, DpkMissing)
                  ELSE /\ Continue(p, [updated EXCEPT !.pc = "getDevicePublicKeys"])
                       /\ UNCHANGED <<session, okCount>>
  /\ UNCHANGED <<creds, dpks, pendingDel, nextChallenge, consumed, calls, env, call, put>>

\* webauthn.ts:423-436: getDevicePublicKeys has settled
AuthResponseDpksRead(p, read) ==
  /\ procs[p].op = "authResponse"
  /\ procs[p].pc = "getDevicePublicKeys"
  /\ LET pr == procs[p]
         storedDpks == getDevicePublicKeys(pr.cred.credentialID)
     IN  IF ~read THEN AuthResponseCatch(p, pr, StorageError)
         ELSE IF pr.ext \in storedDpks THEN AuthResponseSuccess(p, pr)
         ELSE /\ Continue(p, [pr EXCEPT !.pc = "storeDevicePublicKey"])
              /\ UNCHANGED <<session, okCount>>
  /\ UNCHANGED <<creds, dpks, pendingDel, nextChallenge, consumed, calls, env, call, put>>

\* webauthn.ts:427-436: storeDevicePublicKey has settled
AuthResponseDpkStored(p, stored) ==
  /\ procs[p].op = "authResponse"
  /\ procs[p].pc = "storeDevicePublicKey"
  /\ LET pr == procs[p]
     IN  IF ~stored
         THEN /\ AuthResponseCatch(p, pr, StorageError)
              /\ UNCHANGED dpks
         ELSE /\ dpks' = storeDevicePublicKey(dpks,
                           [credentialID |-> pr.cred.credentialID, dpk |-> pr.ext])
              /\ AuthResponseSuccess(p, pr)
  /\ UNCHANGED <<creds, pendingDel, nextChallenge, consumed, calls, env, call, put>>

\* webauthn.ts:111-120 and credential.ts:75: up to the await of
\* getDevicePublicKeys; the throw of line 115 is outside the try
RemoveCredentialStart(p, user, credId) ==
  /\ CanStart(p)
  /\ calls' = calls + 1
  /\ LET pr == [Idle EXCEPT !.op = "removeCredential", !.user = user, !.credID = credId]
     IN  IF user = NoUser THEN End(p, pr, Unauthorized)
         ELSE Continue(p, [pr EXCEPT !.pc = "getDevicePublicKeys"])
  /\ UNCHANGED <<creds, dpks, session, pendingDel, nextChallenge, okCount, consumed, env, call, put>>

\* credential.ts:75-78: the dpks are enumerated; a delete is issued for each
\* and not awaited; then the delete of the credential is issued
RemoveCredentialEnumerated(p, read) ==
  /\ procs[p].op = "removeCredential"
  /\ procs[p].pc = "getDevicePublicKeys"
  /\ LET pr == procs[p]
         getDpks == getDevicePublicKeys(pr.credID)
     IN  IF ~read
         THEN /\ End(p, pr, StorageError)
              /\ UNCHANGED pendingDel
         ELSE /\ pendingDel' = pendingDel \cup {<<item, p>> : item \in getDpks}
              /\ Continue(p, [pr EXCEPT !.pc = "delete", !.snap = getDpks])
  /\ UNCHANGED <<creds, dpks, session, nextChallenge, okCount, consumed, calls, env, call, put>>

\* credential.ts:77-78 and webauthn.ts:120-129: the delete of the credential
\* document has settled and the handler responds
RemoveCredentialDeleted(p, deleted) ==
  /\ procs[p].op = "removeCredential"
  /\ procs[p].pc = "delete"
  /\ LET pr == procs[p]
     IN  IF ~deleted
         THEN /\ End(p, pr, StorageError)
              /\ UNCHANGED creds
         ELSE /\ creds' = DocDelete(creds, pr.credID)
              /\ End(p, pr, Ok)
  /\ UNCHANGED <<dpks, session, pendingDel, nextChallenge, okCount, consumed, calls, env, call, put>>

\* credential.ts:76: a delete issued by removeDevicePublicKey settles, at any
\* time after it was issued; nothing awaits it or sees its rejection
DpkDeleteSettles(dpk, p, deleted) ==
  /\ <<dpk, p>> \in pendingDel
  /\ pendingDel' = pendingDel \ {<<dpk, p>>}
  /\ IF deleted
     THEN /\ dpks' = removeDevicePublicKey(dpks, dpk)
          /\ UNCHANGED procs
     ELSE /\ procs' = [procs EXCEPT ![p].bgFailed = (procs[p].pc = "delete")]
          /\ UNCHANGED dpks
  /\ UNCHANGED <<creds, session, nextChallenge, okCount, consumed, calls, last, env, call, put>>

\* -------------------------------------------------------------- getOrigin
\* Text is a sequence of one-character strings.

\* the character codes of the characters used in user agents and settings
CharCode(c) ==
  CASE c = " " -> 32 [] c = "," -> 44 [] c = "-" -> 45 [] c = "." -> 46 [] c = "/" -> 47
    [] c = "0" -> 48 [] c = "1" -> 49 [] c = "9" -> 57 [] c = ":" -> 58
    [] c = "A" -> 65 [] c = "F" -> 70 [] c = "Z" -> 90 [] c = "[" -> 91 [] c = "_" -> 95
    [] c = "a" -> 97 [] c = "b" -> 98 [] c = "z" -> 122

\* webauthn.ts:58: the character class [a-zA-z0-9_.]
AppReClass(c) ==
  \/ CharCode(c) >= CharCode("a") /\ CharCode(c) <= CharCode("z")
  \/ CharCode(c) >= CharCode("A") /\ CharCode(c) <= CharCode("z")
  \/ CharCode(c) >= CharCode("0") /\ CharCode(c) <= CharCode("9")
  \/ c = "_"
  \/ c = "."

\* webauthn.ts:58-59: userAgent.match(/^[a-zA-z0-9_.]+/): the longest leading
\* run of class characters; the empty text stands for no match (null)
RECURSIVE AppReMatch(_)
AppReMatch(text) ==
  IF text = <<>> \/ ~AppReClass(Head(text)) THEN <<>>
  ELSE <<Head(text)>> \o AppReMatch(Tail(text))

\* String.prototype.split(separator) for a one-character separator
RECURSIVE Split(_, _)
Split(text, separator) ==
  IF \A i \in 1..Len(text) : text[i] # separator THEN <<text>>
  ELSE LET at == CHOOSE i \in 1..Len(text) :
                   /\ text[i] = separator
                   /\ \A j \in 1..(i - 1) : text[j] # separator
       IN  <<SubSeq(text, 1, at - 1)>> \o Split(SubSeq(text, at + 1, Len(text)), separator)

\* String.prototype.trim()
RECURSIVE Trim(_)
Trim(text) ==
  IF text = <<>> THEN text
  ELSE IF Head(text) = " " THEN Trim(Tail(text))
  ELSE IF text[Len(text)] = " " THEN Trim(SubSeq(text, 1, Len(text) - 1))
  ELSE text

\* the value of a hexadecimal digit, -1 for any other character
HexDigit(c) ==
  IF CharCode(c) >= CharCode("0") /\ CharCode(c) <= CharCode("9")
  THEN CharCode(c) - CharCode("0")
  ELSE IF CharCode(c) >= CharCode("A") /\ CharCode(c) <= CharCode("F")
  THEN CharCode(c) - CharCode("A") + 10
  ELSE -1

\* webauthn.ts:70: parseInt(h, 16): the value of the longest leading run of
\* hexadecimal digits, NaN (here -1) when there is none
RECURSIVE ParseHexFrom(_, _)
ParseHexFrom(h, value) ==
  IF h = <<>> \/ HexDigit(Head(h)) < 0 THEN value
  ELSE ParseHexFrom(Tail(h), (IF value < 0 THEN 0 ELSE value) * 16 + HexDigit(Head(h)))

ParseIntHex(h) == ParseHexFrom(h, -1)

\* Buffer.from(array): every element becomes a byte, NaN becomes 0
ToByte(n) == IF n < 0 THEN 0 ELSE n % 256

\* the base64 alphabet
Base64Chars ==
  << "A", "B", "C", "D", "E", "F", "G", "H", "I", "J", "K", "L", "M", "N", "O", "P",
     "Q", "R", "S", "T", "U", "V", "W", "X", "Y", "Z", "a", "b", "c", "d", "e", "f",
     "g", "h", "i", "j", "k", "l", "m", "n", "o", "p", "q", "r", "s", "t", "u", "v",
     "w", "x", "y", "z", "0", "1", "2", "3", "4", "5", "6", "7", "8", "9", "+", "/" >>

Base64Char(n) == Base64Chars[n + 1]

\* buffer.toString('base64')
RECURSIVE Base64(_)
Base64(bytes) ==
  IF bytes = <<>> THEN <<>>
  ELSE IF Len(bytes) = 1
  THEN << Base64Char(bytes[1] \div 4), Base64Char((bytes[1] % 4) * 16), "=", "=" >>
  ELSE IF Len(bytes) = 2
  THEN << Base64Char(bytes[1] \div 4),
          Base64Char((bytes[1] % 4) * 16 + bytes[2] \div 16),
          Base64Char((bytes[2] % 16) * 4), "=" >>
  ELSE << Base64Char(bytes[1] \div 4),
          Base64Char((bytes[1] % 4) * 16 + bytes[2] \div 16),
          Base64Char((bytes[2] % 16) * 4 + bytes[3] \div 64),
          Base64Char(bytes[3] % 64) >> \o Base64(SubSeq(bytes, 4, Len(bytes)))

\* base64url's fromBase64: '=' dropped, '+' becomes '-', '/' becomes '_'
FromBase64(text) ==
  LET kept == SelectSeq(text, LAMBDA c : c # "=")
  IN  [i \in 1..Len(kept) |->
         IF kept[i] = "+" THEN "-" ELSE IF kept[i] = "/" THEN "_" ELSE kept[i]]

\* webauthn.ts:73: base64url.encode(octArray), which reads the array into a Buffer
Base64UrlEncode(octArray) ==
  FromBase64(Base64([i \in 1..Len(octArray) |-> ToByte(octArray[i])]))

\* webauthn.ts:74: the text 'android:apk-key-hash:'
AndroidPrefix ==
  << "a", "n", "d", "r", "o", "i", "d", ":", "a", "p", "k", "-", "k", "e", "y", "-",
     "h", "a", "s", "h", ":" >>

\* a setting of process.env that is not set, and one set to `text`
Unset == [set |-> FALSE, text |-> <<>>]
SetTo(text) == [set |-> TRUE, text |-> text]
\* a setting is truthy when it is set to a non-empty text
Truthy(setting) == setting.set /\ setting.text # <<>>

\* what a call of getOrigin ends with: a returned text, or the TypeError of
\* hashes[i].split when the hash list has no element i
Returned(text) == [threw |-> FALSE, value |-> text]
TypeError == [threw |-> TRUE, value |-> <<>>]

\* webauthn.ts:66-77: the loop over the package names, from index i on
RECURSIVE MatchPackage(_, _, _, _, _)
MatchPackage(origin, appName, package_names, hashes, i) ==
  IF i > Len(package_names) THEN Returned(origin)
  ELSE IF appName = package_names[i]
  THEN IF i > Len(hashes) THEN TypeError
       ELSE LET parts == Split(hashes[i], ":")
                octArray == [k \in 1..Len(parts) |-> ParseIntHex(parts[k])]
            IN  Returned(AndroidPrefix \o Base64UrlEncode(octArray))
  ELSE MatchPackage(origin, appName, package_names, hashes, i + 1)

\* webauthn.ts:51-82; userAgent is [present, text], absent for undefined
getOrigin(settings, origin, userAgent) ==
  IF ~userAgent.present \/ userAgent.text = <<>> THEN Returned(origin)
  ELSE LET match == AppReMatch(userAgent.text)
       IN  IF match = <<>> THEN Returned(origin)
           ELSE IF Truthy(settings.ANDROID_PACKAGENAME) /\ Truthy(settings.ANDROID_SHA256HASH)
           THEN LET names == Split(settings.ANDROID_PACKAGENAME.text, ",")
                    hashList == Split(settings.ANDROID_SHA256HASH.text, ",")
                    package_names == [i \in 1..Len(names) |-> Trim(names[i])]
                    hashes == [i \in 1..Len(hashList) |-> Trim(hashList[i])]
                IN  MatchPackage(origin, match, package_names, hashes, 1)
           ELSE Returned(origin)

\* the process.env settings getOrigin is checked under: unset, empty, one
\* app, two apps with blanks around the entries, a package name listed twice,
\* and a hash list shorter than the package list
Settings ==
  { [ANDROID_PACKAGENAME |-> Unset, ANDROID_SHA256HASH |-> Unset],
    [ANDROID_PACKAGENAME |-> SetTo(<<"a", ".", "b">>), ANDROID_SHA256HASH |-> Unset],
    [ANDROID_PACKAGENAME |-> Unset, ANDROID_SHA256HASH |-> SetTo(<<"A", "F", ":", "0", "1">>)],
    [ANDROID_PACKAGENAME |-> SetTo(<<>>), ANDROID_SHA256HASH |-> SetTo(<<"A", "F">>)],
    [ANDROID_PACKAGENAME |-> SetTo(<<"a", ".", "b">>),
     ANDROID_SHA256HASH |-> SetTo(<<"A", "F", ":", "0", "1">>)],
    [ANDROID_PACKAGENAME |-> SetTo(<<"a", ".", "b", ",", " ", "b">>),
     ANDROID_SHA256HASH |-> SetTo(<<"A", "F", ":", "0", "1", " ", ",", "F", "F", ":", "1", "0", ":", "0", "A">>)],
    [ANDROID_PACKAGENAME |-> SetTo(<<"b", ",", "a", ",", "b">>),
     ANDROID_SHA256HASH |-> SetTo(<<"0", "0", ",", "F", "F", ":", "F", "F", ",", "0", "A">>)],
    [ANDROID_PACKAGENAME |-> SetTo(<<"a", ".", "b", ",", "b">>),
     ANDROID_SHA256HASH |-> SetTo(<<"A", "F", ":", "0", "1">>)] }

\* the characters of the user agents tried, and their greatest length
UserAgentChars == {"a", "b", ".", "/", "["}
MaxUserAgentLen == 3

\* the User-Agent header: absent, or any text over the characters
UserAgents ==
  {[present |-> FALSE, text |-> <<>>]} \cup
  {[present |-> TRUE, text |-> t] :
     t \in UNION {[1..n -> UserAgentChars] : n \in 0..MaxUserAgentLen}}

\* res.locals.origin
DeclaredOrigins == {<<"h", "t", "t", "p", "s", ":", "/", "/", "r", "p">>}

\* no call of getOrigin has been made
NoCall ==
  [made |-> FALSE, origin |-> <<>>, userAgent |-> [present |-> FALSE, text |-> <<>>],
   appName |-> <<>>, outcome |-> Returned(<<>>)]

\* webauthn.ts:243 and 375: a call of getOrigin; appName is match[0], the
\* text line 65 compares with the package names (empty when nothing matches)
CallGetOrigin(origin, userAgent) ==
  /\ call' = [made |-> TRUE, origin |-> origin, userAgent |-> userAgent,
              appName |-> IF userAgent.present THEN AppReMatch(userAgent.text) ELSE <<>>,
              outcome |-> getOrigin(env, origin, userAgent)]
  /\ UNCHANGED <<creds, dpks, session, procs, pendingDel, nextChallenge, okCount, consumed,
                 calls, last, env, put>>

\* no direct call of storeDevicePublicKey has been made
NoPut ==
  [made |-> FALSE, credentialID |-> "", dpk |-> "", settled |-> FALSE, again |-> FALSE,
   before |-> [k \in {} |-> 0]]

\* credential.ts:107-112: a call of storeDevicePublicKey by itself, whose
\* promise resolves or is rejected; `again` records that the call before it
\* wrote the same pair
StoreDevicePublicKeyCall(credentialID, dpk, settles) ==
  /\ calls < MaxCalls
  /\ calls' = calls + 1
  /\ dpks' = IF settles
             THEN storeDevicePublicKey(dpks, [credentialID |-> credentialID, dpk |-> dpk])
             ELSE dpks
  /\ put' = [made |-> TRUE, credentialID |-> credentialID, dpk |-> dpk, settled |-> settles,
             again |-> put.made /\ put.settled /\ put.credentialID = credentialID
                                /\ put.dpk = dpk,
             before |-> dpks]
  /\ UNCHANGED <<creds, session, procs, pendingDel, nextChallenge, okCount, consumed, last,
                 env, call>>

\* ------------------------------------------------------- specifications

EmptyDoc == [k \in {} |-> 0]

\* The repository outlives the server process: a run starts on the empty
\* repository or on one an earlier run has left, here the outcome of user u1
\* registering credential c1 (counter 1, device public key d1) at time 0.
InitialRepositories ==
  { [creds |-> EmptyDoc, dpks |-> EmptyDoc],
    [creds |-> storeCredential(EmptyDoc,
                 [user_id |-> "u1", credentialID |-> "c1", counter |-> 1, registered |-> 0,
                  authenticatorAttachment |-> "platform"]),
     dpks |-> storeDevicePublicKey(EmptyDoc, [credentialID |-> "c1", dpk |-> "d1"])] }

Init ==
  /\ \E repo \in InitialRepositories :
       /\ creds = repo.creds
       /\ dpks = repo.dpks
  /\ session = EmptyDoc
  /\ procs = [p \in Procs |-> Idle]
  /\ pendingDel = {}
  /\ nextChallenge = 1
  /\ okCount = [c \in 0..MaxChallenge |-> 0]
  /\ consumed = 0
  /\ calls = 0
  /\ last = Ended(Idle, "")
  /\ env = [ANDROID_PACKAGENAME |-> Unset, ANDROID_SHA256HASH |-> Unset]
  /\ call = NoCall
  /\ put = NoPut

Next ==
  \/ \E p \in Procs, user \in Users \cup {NoUser}, hostname \in BOOLEAN, aa \in AttachmentInputs :
       RegisterRequest(p, user, hostname, aa)
  \/ \E p \in Procs, user \in Users \cup {NoUser} :
       AuthRequest(p, user)
  \/ \E p \in Procs, user \in Users \cup {NoUser}, hostname, origin, resolves \in BOOLEAN :
       RegisterResponseStart(p, user, hostname, origin, resolves)
  \/ \E p \in Procs, verification \in RegistrationAnswers :
       RegisterResponseVerified(p, verification)
  \/ \E p \in Procs, stored \in BOOLEAN :
       RegisterResponseStored(p, stored)
  \/ \E p \in Procs, stored \in BOOLEAN :
       RegisterResponseDpkStored(p, stored)
  \/ \E p \in Procs, user \in Users \cup {NoUser}, hostname, origin, resolves \in BOOLEAN, id \in CredIds :
       AuthResponseStart(p, user, hostname, origin, resolves, id)
  \/ \E p \in Procs, listed \in BOOLEAN, verification \in AuthenticationAnswers :
       AuthResponseLookedUp(p, listed, verification)
  \/ \E p \in Procs, read \in BOOLEAN :
       AuthResponseDpksRead(p, read)
  \/ \E p \in Procs, stored \in BOOLEAN :
       AuthResponseDpkStored(p, stored)
  \/ \E p \in Procs, user \in Users \cup {NoUser}, id \in CredIds :
       RemoveCredentialStart(p, user, id)
  \/ \E p \in Procs, read \in BOOLEAN :
       RemoveCredentialEnumerated(p, read)
  \/ \E p \in Procs, deleted \in BOOLEAN :
       RemoveCredentialDeleted(p, deleted)
  \/ \E d \in DpkIds, p \in Procs, deleted \in BOOLEAN :
       DpkDeleteSettles(d, p, deleted)

Spec == Init /\ [][Next]_vars

\* getOrigin alone: every setting, every user agent
InitOrigin ==
  /\ creds = EmptyDoc
  /\ dpks = EmptyDoc
  /\ session = EmptyDoc
  /\ procs = [p \in Procs |-> Idle]
  /\ pendingDel = {}
  /\ nextChallenge = 1
  /\ okCount = [c \in 0..MaxChallenge |-> 0]
  /\ consumed = 0
  /\ calls = 0
  /\ last = Ended(Idle, "")
  /\ env \in Settings
  /\ call = NoCall
  /\ put = NoPut

NextOrigin ==
  \E origin \in DeclaredOrigins, userAgent \in UserAgents : CallGetOrigin(origin, userAgent)

SpecOrigin == InitOrigin /\ [][NextOrigin]_vars

\* storeDevicePublicKey alone, on every dpks collection over the two
\* credentials and the two keys
InitDpk ==
  /\ creds = [c \in CredIds |->
               [user_id |-> IF c = "c1" THEN "u1" ELSE "u2", counter |-> 0, registered |-> 0,
                authenticatorAttachment |-> "platform"]]
  /\ \E stored \in SUBSET DpkIds : \E owner \in [stored -> CredIds] :
       dpks = [d \in stored |-> [credentialID |-> owner[d], dpk |-> d]]
  /\ session = EmptyDoc
  /\ procs = [p \in Procs |-> Idle]
  /\ pendingDel = {}
  /\ nextChallenge = 1
  /\ okCount = [c \in 0..MaxChallenge |-> 0]
  /\ consumed = 0
  /\ calls = 0
  /\ last = Ended(Idle, "")
  /\ env = [ANDROID_PACKAGENAME |-> Unset, ANDROID_SHA256HASH |-> Unset]
  /\ call = NoCall
  /\ put = NoPut

NextDpk ==
  \E credentialID \in CredIds, dpk \in DpkIds, settles \in BOOLEAN :
    StoreDevicePublicKeyCall(credentialID, dpk, settles)

SpecDpk == InitDpk /\ [][NextDpk]_vars

\* The same handlers when every request is received after the one before it
\* has ended.  The deletes removeCredential does not await stay in flight.
NextSeq ==
  \/ \E p \in Procs, user \in Users \cup {NoUser}, hostname \in BOOLEAN, aa \in AttachmentInputs :
       Quiet /\ RegisterRequest(p, user, hostname, aa)
  \/ \E p \in Procs, user \in Users \cup {NoUser} :
       Quiet /\ AuthRequest(p, user)
  \/ \E p \in Procs, user \in Users \cup {NoUser}, hostname, origin, resolves \in BOOLEAN :
       Quiet /\ RegisterResponseStart(p, user, hostname, origin, resolves)
  \/ \E p \in Procs, verification \in RegistrationAnswers :
       RegisterResponseVerified(p, verification)
  \/ \E p \in Procs, stored \in BOOLEAN :
       RegisterResponseStored(p, stored)
  \/ \E p \in Procs, stored \in BOOLEAN :
       RegisterResponseDpkStored(p, stored)
  \/ \E p \in Procs, user \in Users \cup {NoUser}, hostname, origin, resolves \in BOOLEAN, id \in CredIds :
       Quiet /\ AuthResponseStart(p, user, hostname, origin, resolves, id)
  \/ \E p \in Procs, listed \in BOOLEAN, verification \in AuthenticationAnswers :
       AuthResponseLookedUp(p, listed, verification)
  \/ \E p \in Procs, read \in BOOLEAN :
       AuthResponseDpksRead(p, read)
  \/ \E p \in Procs, stored \in BOOLEAN :
       AuthResponseDpkStored(p, stored)
  \/ \E p \in Procs, user \in Users \cup {NoUser}, id \in CredIds :
       Quiet /\ RemoveCredentialStart(p, user, id)
  \/ \E p \in Procs, read \in BOOLEAN :
       RemoveCredentialEnumerated(p, read)
  \/ \E p \in Procs, deleted \in BOOLEAN :
       RemoveCredentialDeleted(p, deleted)
  \/ \E d \in DpkIds, p \in Procs, deleted \in BOOLEAN :
       DpkDeleteSettles(d, p, deleted)

SpecSeq == Init /\ [][NextSeq]_vars

\* ------------------------------------------------------------- properties

\* C1 - after an authResponse that succeeded, the credential document stored
\* under the claimed id has the verifier's newCounter as its counter and the
\* time of the call as its last_used
C1_CounterPersisted ==
  (Quiet /\ last.op = "authResponse" /\ last.result = Ok) =>
    /\ last.credID \in DOMAIN creds
    /\ creds[last.credID].counter = last.body.counter
    /\ "last_used" \in DOMAIN creds[last.credID]
    /\ creds[last.credID].last_used = last.body.last_used

\* C2 - whenever authResponse was the last handler to end, however it ended,
\* the session holds neither challenge nor timeout
C2_AuthenticationSessionReleased ==
  last.op = "authResponse" =>
    /\ "challenge" \notin DOMAIN session
    /\ "timeout" \notin DOMAIN session

\* C3 - whenever registerResponse was the last handler to end, however it
\* ended, the session holds none of challenge, timeout and type
C3_RegistrationSessionReleased ==
  last.op = "registerResponse" =>
    (DOMAIN session) \cap {"challenge", "timeout", "type"} = {}

\* a registerResponse that found a challenge and failed verification has ended
C3_Witness ==
  /\ last.op = "registerResponse"
  /\ last.result = VerificationFailed
  /\ last.invoked

\* a step in which a registerResponse request is received
RegisterResponseReceived ==
  /\ calls' = calls + 1
  /\ \/ procs' = procs /\ last'.op = "registerResponse"
     \/ \E p \in Procs : procs[p].pc = "idle" /\ procs'[p].op = "registerResponse"

\* C4 - as stated: a registerResponse received after another one has ended,
\* with no challenge issued in between, fails with 'No challenge found.',
\* without a call of the verifier and without a write to the repository
C4_SecondCallNoChallenge ==
  [][(nextChallenge > 1 /\ consumed >= 1 /\ RegisterResponseReceived) =>
       /\ procs' = procs
       /\ last'.result = NoChallengeFound
       /\ ~last'.invoked
       /\ creds' = creds
       /\ dpks' = dpks]_vars

\* C4 - as amended: such a second registerResponse fails in the step that
\* receives it, with 'No challenge found.' when the caller is authenticated
\* and with 'Unauthorized.' when not, without a call of the verifier and
\* without a write to the repository
C4_SecondCallFails ==
  [][(nextChallenge > 1 /\ consumed >= 1 /\ RegisterResponseReceived) =>
       /\ procs' = procs
       /\ last'.result = IF last'.user = NoUser THEN Unauthorized ELSE NoChallengeFound
       /\ ~last'.invoked
       /\ creds' = creds
       /\ dpks' = dpks]_vars

\* a run of three requests: a challenge is issued, a registerResponse
\* succeeds on it, and a second registerResponse has failed for want of one
C4_Witness ==
  /\ calls = 3
  /\ consumed = 2
  /\ okCount[1] = 1
  /\ last.op = "registerResponse"
  /\ last.user # NoUser
  /\ last.result = NoChallengeFound

\* C5 - when removeCredential reports completion for a credential that had
\* device public keys, none of whose deletes failed, no dpk document
\* references the credential and the credential document is absent
C5_CascadeComplete ==
  [][\A p \in Procs :
       ( /\ procs[p].op = "removeCredential"
         /\ procs[p].pc = "delete"
         /\ procs'[p].pc = "idle"
         /\ last'.op = "removeCredential"
         /\ last'.result = Ok
         /\ procs[p].snap # {}
         /\ ~procs[p].bgFailed ) =>
       /\ procs[p].credID \notin DOMAIN creds'
       /\ \A d \in DOMAIN dpks' : dpks'[d].credentialID # procs[p].credID]_vars

\* C6 - in every reachable state every dpk document references a credential
\* document that exists
C6_ReferentialInvariant ==
  \A d \in DOMAIN dpks : dpks[d].credentialID \in DOMAIN creds

\* the credential document `id` exists and belongs to `user`
OwnedBy(user, id) ==
  id \in DOMAIN creds /\ creds[id].user_id = user

\* C7 - as stated: an authResponse of an authenticated user for a credential
\* id that is not among the user's credentials ends with 'Authenticating
\* credential not found.', without a call of the verifier, and no step of it
\* changes a credential or dpk document
C7_NotOwnedNotFound ==
  [][/\ ( /\ calls' = calls + 1
          /\ procs' = procs
          /\ last'.op = "authResponse"
          /\ last'.user # NoUser
          /\ ~OwnedBy(last'.user, last'.credID) ) =>
          /\ last'.result = CredentialNotFound
          /\ ~last'.invoked
          /\ creds' = creds
          /\ dpks' = dpks
     /\ \A p \in Procs :
          ( /\ procs[p].op = "authResponse"
            /\ procs[p].pc = "getCredentials"
            /\ procs'[p] # procs[p]
            /\ ~OwnedBy(procs[p].user, procs[p].credID) ) =>
          /\ procs'[p] = Idle
          /\ last'.op = "authResponse"
          /\ last'.result = CredentialNotFound
          /\ ~last'.invoked
          /\ creds' = creds
          /\ dpks' = dpks]_vars

\* C7 - as amended: such an authResponse fails without a call of the
\* verifier and without a change to a credential or dpk document; it fails
\* with the error of its configuration checks or of getOrigin when it ends
\* before the lookup, and with 'Authenticating credential not found.', or
\* the error of the list read, at the lookup
C7_NotOwnedFails ==
  [][/\ ( /\ calls' = calls + 1
          /\ procs' = procs
          /\ last'.op = "authResponse"
          /\ last'.user # NoUser
          /\ ~OwnedBy(last'.user, last'.credID) ) =>
          /\ last'.result \in {HostnameNotConfigured, OriginNotConfigured, OriginTypeError}
          /\ ~last'.invoked
          /\ creds' = creds
          /\ dpks' = dpks
     /\ \A p \in Procs :
          ( /\ procs[p].op = "authResponse"
            /\ procs[p].pc = "getCredentials"
            /\ procs'[p] # procs[p]
            /\ ~OwnedBy(procs[p].user, procs[p].credID) ) =>
          /\ procs'[p] = Idle
          /\ last'.op = "authResponse"
          /\ last'.result \in {CredentialNotFound, StorageError}
          /\ ~last'.invoked
          /\ creds' = creds
          /\ dpks' = dpks]_vars

\* an authResponse for a credential that exists under another user has ended
\* with 'Authenticating credential not found.'
C7_Witness ==
  /\ last.op = "authResponse"
  /\ last.result = CredentialNotFound
  /\ last.user # NoUser
  /\ last.credID \in DOMAIN creds
  /\ creds[last.credID].user_id # last.user

\* C8 - after a registerResponse that succeeded, the caller's credentials
\* hold exactly one credential that was not there before: the id the verifier
\* returned was not among them when it was stored, it is among them now, and
\* its stored counter is the counter the verifier returned
C8_ExactlyOneNew ==
  (Quiet /\ last.op = "registerResponse" /\ last.result = Ok) =>
    /\ last.fresh
    /\ last.credID \in ListedIds(last.user)
    /\ creds[last.credID].counter = last.body.counter

\* C9 - no step lowers the counter of a credential document that exists
\* before and after it
C9_CounterMonotonic ==
  [][\A c \in (DOMAIN creds) \cap (DOMAIN creds') :
       creds'[c].counter >= creds[c].counter]_vars

\* C11 - every stored credential document has an authenticatorAttachment
\* among 'platform', 'cross-platform' and 'undefined', whatever attachment
\* the registerRequest that opened its ceremony was sent
C11_AttachmentDomain ==
  \A c \in DOMAIN creds :
    creds[c].authenticatorAttachment \in {"platform", "cross-platform", "undefined"}

\* C12 - when storeDevicePublicKey is called a second time with the pair the
\* call before it wrote, and its write is applied, the dpks collection is the
\* one the first call left and holds exactly one document for the pair
C12_PutIdempotent ==
  (put.made /\ put.again /\ put.settled) =>
    /\ dpks = put.before
    /\ Cardinality({k \in DOMAIN dpks : /\ dpks[k].credentialID = put.credentialID
                                        /\ dpks[k].dpk = put.dpk}) = 1

\* a second call with the same pair has resolved
C12_Witness ==
  /\ put.made
  /\ put.again
  /\ put.settled
  /\ put.dpk \in DOMAIN dpks

\* credential B is stored with the device public key its registration wrote,
\* and credential A is absent with no dpk document referring to it
BothSettled(B, dpkOfB, A, credentials, keys) ==
  /\ B \in DOMAIN credentials
  /\ dpkOfB \in DOMAIN keys
  /\ keys[dpkOfB].credentialID = B
  /\ A \notin DOMAIN credentials
  /\ \A d \in DOMAIN keys : keys[d].credentialID # A

\* C13 - when a registerResponse that stored credential B with a device
\* public key and a removeCredential of another credential A have both
\* reported success, one right after the other in either order with no
\* handler still running, B is stored with that key and A is absent with no
\* dpk document referring to it
C13_IndependentCredentials ==
  [][\A p \in Procs :
       LET pr == procs[p]
       IN  ( /\ pr.pc # "idle"
             /\ procs'[p] = Idle
             /\ \A q \in Procs : procs'[q].pc = "idle"
             /\ last'.result = Ok
             /\ last.result = Ok
             /\ last.credID # pr.credID ) =>
           /\ ( /\ pr.op = "registerResponse"
                /\ pr.ext \in DpkIds
                /\ last.op = "removeCredential" ) =>
                BothSettled(pr.credID, pr.ext, last.credID, creds', dpks')
           /\ ( /\ pr.op = "removeCredential"
                /\ last.op = "registerResponse"
                /\ last.ext \in DpkIds ) =>
                BothSettled(last.credID, last.ext, pr.credID, creds', dpks')]_vars

\* C14 - as stated: for every challenge issued, at most one response handler
\* that was given it as expectedChallenge ends in success, overlapping
\* handlers included
C14_OneSuccessPerChallenge ==
  \A ch \in 1..MaxChallenge : okCount[ch] <= 1

\* C14 - as amended: a challenge on which a response handler has succeeded is
\* no longer the challenge of the session, so that no handler received after
\* the success is given it; handlers that read it before may still succeed
C14_SucceededChallengeGone ==
  HasChallenge(session) => okCount[session.challenge] = 0

\* a response handler has succeeded on the first challenge issued and the
\* session holds no challenge
C14_Witness ==
  /\ okCount[1] = 1
  /\ last.op \in {"registerResponse", "authResponse"}
  /\ last.result = Ok
  /\ ~HasChallenge(session)

\* C15 - when a request phase was the last handler to end and it succeeded,
\* the session holds exactly what that request wrote: the challenge it
\* issued and its timeout, and a type only when it was a registerRequest
C15_FreshOnIssue ==
  (last.op \in {"registerRequest", "authRequest"} /\ last.result = Ok) =>
    /\ DOMAIN session = IF last.op = "registerRequest"
                        THEN {"challenge", "timeout", "type"}
                        ELSE {"challenge", "timeout"}
    /\ session.challenge = nextChallenge - 1
    /\ session.timeout = session.challenge + WEBAUTHN_TIMEOUT

\* C16 - a removeCredential that has seen one of its storage operations
\* fail, the delete of a dpk document included, does not report success
C16_NoSilentSuccess ==
  [][\A p \in Procs :
       ( /\ procs[p].op = "removeCredential"
         /\ procs[p].pc # "idle"
         /\ procs'[p] = Idle
         /\ procs[p].bgFailed ) =>
       last'.result # Ok]_vars

\* the character class [A-Za-z0-9_.]
TokenClass(c) ==
  \/ CharCode(c) >= CharCode("a") /\ CharCode(c) <= CharCode("z")
  \/ CharCode(c) >= CharCode("A") /\ CharCode(c) <= CharCode("Z")
  \/ CharCode(c) >= CharCode("0") /\ CharCode(c) <= CharCode("9")
  \/ c = "_"
  \/ c = "."

\* the leading token of a text: its longest leading run of class characters
RECURSIVE LeadingToken(_)
LeadingToken(text) ==
  IF text = <<>> \/ ~TokenClass(Head(text)) THEN <<>>
  ELSE <<Head(text)>> \o LeadingToken(Tail(text))

\* the entries of a comma-separated setting, or none when it is not configured
ListOf(setting) ==
  IF Truthy(setting)
  THEN [i \in 1..Len(Split(setting.text, ",")) |-> Trim(Split(setting.text, ",")[i])]
  ELSE <<>>

\* C10 - a call of getOrigin returns the android:apk-key-hash origin of the
\* hash at index i exactly when a user agent is supplied, both lists are
\* configured and the leading token of the user agent equals package name i,
\* for the first such i; in every other case it returns the declared origin
C10_OriginResolution ==
  call.made =>
    LET token == IF call.userAgent.present THEN LeadingToken(call.userAgent.text) ELSE <<>>
        configured == Truthy(env.ANDROID_PACKAGENAME) /\ Truthy(env.ANDROID_SHA256HASH)
        names == IF configured THEN ListOf(env.ANDROID_PACKAGENAME) ELSE <<>>
        hashes == ListOf(env.ANDROID_SHA256HASH)
        hits == {i \in 1..Len(names) : token # <<>> /\ names[i] = token}
    IN  IF hits = {}
        THEN call.outcome = Returned(call.origin)
        ELSE LET i == CHOOSE h \in hits : \A j \in hits : h <= j
             IN  /\ i <= Len(hashes)
                 /\ LET parts == Split(hashes[i], ":")
                    IN  call.outcome =
                          Returned(AndroidPrefix \o
                                   Base64UrlEncode([k \in 1..Len(parts) |-> ParseIntHex(parts[k])]))

\* C17 - when both lists are configured, the text getOrigin compares with
\* the package names is the longest leading run of the user agent's
\* characters from A-Z, a-z, 0-9, '_' and '.'
C17_CandidateToken ==
  ( /\ call.made
    /\ call.userAgent.present
    /\ Truthy(env.ANDROID_PACKAGENAME)
    /\ Truthy(env.ANDROID_SHA256HASH) ) =>
    call.appName = LeadingToken(call.userAgent.text)

\* the errors of registerResponse that C18 names
RegistrationFailures ==
  {Unauthorized, NoChallengeFound, HostnameNotConfigured, OriginNotConfigured,
   VerificationFailed, DpkMissing}

\* C18 - a registerResponse that ends in one of the named failures leaves
\* the credential and dpk documents as they were; the handler writes in no
\* step before the one in which such a failure ends it
C18_FailureAtomic ==
  [][/\ ( /\ calls' = calls + 1
          /\ procs' = procs
          /\ last'.op = "registerResponse"
          /\ last'.result \in RegistrationFailures ) =>
          (creds' = creds /\ dpks' = dpks)
     /\ \A p \in Procs :
          ( /\ procs[p].op = "registerResponse"
            /\ procs[p].pc # "idle"
            /\ procs'[p] = Idle
            /\ last'.result \in RegistrationFailures ) =>
          (creds' = creds /\ dpks' = dpks)]_vars

\* the credential documents of every user but `user`
CredsOfOthers(user, credentials) ==
  [c \in {k \in DOMAIN credentials : credentials[k].user_id # user} |-> credentials[c]]

\* C19 - no step of a registerResponse made by a user removes, re-assigns or
\* changes a credential document of another user
C19_RegistrationIsolated ==
  [][\A p \in Procs :
       (procs[p].op = "registerResponse" /\ procs'[p] # procs[p]) =>
       \A c \in DOMAIN CredsOfOthers(procs[p].user, creds) :
         c \in DOMAIN creds' /\ creds'[c] = creds[c]]_vars

\* C20 - no step of a removeCredential made by an authenticated user removes
\* or changes a credential document of another user or a dpk document of
\* such a credential
C20_DeletionIsolated ==
  [][\A p \in Procs :
       (procs[p].op = "removeCredential" /\ procs'[p] # procs[p]) =>
       \A c \in DOMAIN CredsOfOthers(procs[p].user, creds) :
         /\ c \in DOMAIN creds'
         /\ creds'[c] = creds[c]
         /\ \A d \in DOMAIN dpks : dpks[d].credentialID = c =>
               (d \in DOMAIN dpks' /\ dpks'[d] = dpks[d])]_vars

\* C21 - an authResponse that found no challenge in the session when it read
\* req.session.challenge ends in a failure and has not called the verifier
C21_AuthenticationNeedsChallenge ==
  [][\A p \in Procs :
       ( /\ procs[p].op = "authResponse"
         /\ procs[p].pc # "idle"
         /\ procs[p].expectedChallenge = 0
         /\ procs'[p] = Idle ) =>
       (last'.result # Ok /\ ~last'.invoked)]_vars

====
